---- MODULE Spec2Model ----
(***************************************************************************)
(* Model of src/src/utils/calculate.py: meff(lines, boundary, mask), the   *)
(* modified effective mesh size (CBC) of every polygon of a mask.          *)
(*                                                                         *)
(* Geometry lives on a square grid of GridN x GridN unit cells whose side  *)
(* is `side` metres.  A polygon is a union of closed unit cells, a line    *)
(* geometry is a set of unit edges.  Areas, intersections, bounds and the  *)
(* intersects predicate are exact on such geometries.  Floating point      *)
(* numbers are modelled as exact decimal-scaled rationals (no rounding).   *)
(***************************************************************************)
EXTENDS Integers, Sequences, FiniteSets, TLC

\* ------------------------------------------------------------------ bounds
GridN == 3
MaxRegions == 2
MaxBands == 2
MaxRows == 1
MaxCols == 2
MaxTables == 3

\* ------------------------------------------------------- float arithmetic
\* A number is <<n, d, e>> = (n / d) * 10^e in canonical form: d > 0 is
\* coprime to 10 and to n, n is not a multiple of 10 (zero is <<0, 1, 0>>).
\* Canonical forms are unique, so equality of numbers is equality of tuples.
Abs(x) == IF x < 0 THEN -x ELSE x

RECURSIVE GCD(_, _)
GCD(a, b) == IF b = 0 THEN a ELSE GCD(b, a % b)

RECURSIVE Pow10(_)
Pow10(k) == IF k = 0 THEN 1 ELSE 10 * Pow10(k - 1)

RECURSIVE Canon(_, _, _)
Canon(n, d, e) ==
    IF n = 0 THEN <<0, 1, 0>>
    ELSE IF d % 2 = 0 THEN Canon(n * 5, d \div 2, e - 1)
    ELSE IF d % 5 = 0 THEN Canon(n * 2, d \div 5, e - 1)
    ELSE IF n % 10 = 0 THEN Canon(n \div 10, d, e + 1)
    ELSE LET g == GCD(Abs(n), d) IN <<n \div g, d \div g, e>>

Num(k) == Canon(k, 1, 0)

Zero == Num(0)

IsZero(a) == a[1] = 0

IsNegative(a) == a[1] < 0

FMul(a, b) ==
    LET g1 == GCD(Abs(a[1]), b[2])
        g2 == GCD(Abs(b[1]), a[2])
    IN  Canon((a[1] \div g1) * (b[1] \div g2),
              (a[2] \div g2) * (b[2] \div g1), a[3] + b[3])

FAdd(a, b) ==
    IF IsZero(a) THEN b
    ELSE IF IsZero(b) THEN a
    ELSE LET e == IF a[3] < b[3] THEN a[3] ELSE b[3]
             g == GCD(a[2], b[2])
         IN  Canon(a[1] * Pow10(a[3] - e) * (b[2] \div g)
                     + b[1] * Pow10(b[3] - e) * (a[2] \div g),
                   (a[2] \div g) * b[2], e)

\* a / b for b # 0 (Python raises ZeroDivisionError for b = 0, see LoopCell)
FDiv(a, b) ==
    LET s == IF b[1] < 0 THEN -1 ELSE 1
        g1 == GCD(Abs(a[1]), Abs(b[1]))
        g2 == GCD(a[2], b[2])
    IN  Canon(s * (a[1] \div g1) * (b[2] \div g2),
              (a[2] \div g2) * (Abs(b[1]) \div g1), a[3] - b[3])

\* ---------------------------------------------------------------- geometry
Cells == (0 .. GridN - 1) \X (0 .. GridN - 1)

\* unit edges: <<"h", x, y>> joins (x, y)-(x+1, y); <<"v", x, y>> joins
\* (x, y)-(x, y+1)
HEdges == {<<"h", x, y>> : x \in 0 .. GridN - 1, y \in 0 .. GridN}

VEdges == {<<"v", x, y>> : x \in 0 .. GridN, y \in 0 .. GridN - 1}

Edges == HEdges \cup VEdges

\* the four edges of a cell
CellEdges(c) ==
    {<<"h", c[1], c[2]>>, <<"h", c[1], c[2] + 1>>,
     <<"v", c[1], c[2]>>, <<"v", c[1] + 1, c[2]>>}

\* the four corners of a cell
CellVerts(c) ==
    {<<c[1], c[2]>>, <<c[1] + 1, c[2]>>, <<c[1], c[2] + 1>>, <<c[1] + 1, c[2] + 1>>}

EdgeVerts(ed) ==
    IF ed[1] = "h" THEN {<<ed[2], ed[3]>>, <<ed[2] + 1, ed[3]>>}
    ELSE {<<ed[2], ed[3]>>, <<ed[2], ed[3] + 1>>}

\* A polygon geometry: the cells of its interior and the grid vertices of
\* its closure.  A degenerate (zero-area) polygon has no cells.
Poly(cs) == [cells |-> cs, verts |-> UNION {CellVerts(c) : c \in cs}]

Degenerate(ed) == [cells |-> {}, verts |-> EdgeVerts(ed)]

Rect(x0, y0, x1, y1) == Poly((x0 .. x1 - 1) \X (y0 .. y1 - 1))

\* shapely: geometry.area, in square metres (s is the cell side in metres)
Area(g, s) == FMul(Num(Cardinality(g.cells)), FMul(Num(s), Num(s)))

\* shapely: a.intersection(b) of two polygons (the shared area)
Intersection(a, b) == Poly(a.cells \cap b.cells)

\* shapely: a.intersects(b); closed sets, so touching geometries intersect
Intersects(a, b) == a.verts \cap b.verts # {}

\* shapely: geometry.bounds = (minx, miny, maxx, maxy), in grid units
Min(S) == CHOOSE m \in S : \A k \in S : m <= k

Max(S) == CHOOSE m \in S : \A k \in S : m >= k

Bounds(g) ==
    LET xs == {v[1] : v \in g.verts}
        ys == {v[2] : v \in g.verts}
    IN  <<Min(xs), Min(ys), Max(xs), Max(ys)>>

\* (variant) boxes that only touch are not reported
BoxesOverlap(a, b) ==
    /\ a[1] < b[3]
    /\ b[1] < a[3]
    /\ a[2] < b[4]
    /\ b[2] < a[4]

\* rtree: two closed boxes intersect
BoxesIntersect(a, b) ==
    /\ a[1] <= b[3]
    /\ b[1] <= a[3]
    /\ a[2] <= b[4]
    /\ b[2] <= a[4]

\* geopandas: GeoSeries.boundary of a polygon, the edges of its outline
Ring(g) ==
    {ed \in Edges : Cardinality({c \in g.cells : ed \in CellEdges(c)}) = 1}

\* geopandas: GeoSeries.unary_union of line geometries (noded, dissolved)
UnaryUnion(series) == UNION {series[k] : k \in 1 .. Len(series)}

\* the cells next to cell c across an edge that is not a line
OpenNbrs(c, E) ==
    {d \in {<<c[1] - 1, c[2]>>, <<c[1] + 1, c[2]>>, <<c[1], c[2] - 1>>, <<c[1], c[2] + 1>>} :
        /\ d \in Cells
        /\ IF d[2] = c[2]
           THEN <<"v", IF d[1] > c[1] THEN d[1] ELSE c[1], c[2]>> \notin E
           ELSE <<"h", c[1], IF d[2] > c[2] THEN d[2] ELSE c[2]>> \notin E}

\* the cells joined to a cell of S without crossing a line
RECURSIVE Flood(_, _)
Flood(S, E) ==
    LET T == S \cup UNION {OpenNbrs(c, E) : c \in S}
    IN  IF T = S THEN S ELSE Flood(T, E)

\* edges on the rim of the grid: the unbounded face lies beyond them
RimEdges(c) ==
    {ed \in CellEdges(c) :
        \/ ed[1] = "h" /\ ed[3] \in {0, GridN}
        \/ ed[1] = "v" /\ ed[2] \in {0, GridN}}

\* cells of the unbounded face: reachable from outside the grid
Unbounded(E) == Flood({c \in Cells : RimEdges(c) \ E # {}}, E)

CellRank(c) == c[2] * GridN + c[1]

FirstCell(S) == CHOOSE c \in S : \A d \in S : CellRank(c) <= CellRank(d)

RECURSIVE Faces(_, _)
Faces(rest, E) ==
    IF rest = {} THEN <<>>
    ELSE LET f == Flood({FirstCell(rest)}, E)
         IN  <<Poly(f)>> \o Faces(rest \ f, E)

\* shapely.ops.polygonize_full(...)[0] exploded: the bounded faces of the
\* arrangement of the lines; dangles and cut edges bound no face
Polygonize(E) == Faces(Cells \ Unbounded(E), E)

\* ------------------------------------------------------------ data frames
\* A table (GeoDataFrame) has a set of columns and a sequence of rows; a row
\* carries its index label and its values.  Absent is the value of a column
\* the table does not have, NaN is numpy.nan; numbers are triples.
Absent == <<"absent">>

NaN == <<"NaN">>

\* (variant) no copy: the name stays bound to the caller's object
CopyAlias(h, ref) == [heap |-> h, ref |-> ref]

\* pandas: df.copy(); h is the heap of table objects, ref the object the
\* name `mask` is bound to.  The copy is a new object, named "local".
Copy(h, ref) == [heap |-> [h EXCEPT !["local"] = h[ref]], ref |-> "local"]

\* pandas: df[col] = scalar, here mask['meff'] = np.nan
SetColumn(tbl, v) ==
    [columns |-> tbl.columns \cup {"meff"},
     rows |-> [k \in 1 .. Len(tbl.rows) |-> [tbl.rows[k] EXCEPT !.meff = v]]]

\* (variant) the label taken for a row position, as df.iloc would
AtSetByPosition(tbl, label, v) ==
    [tbl EXCEPT !.rows = [k \in 1 .. Len(tbl.rows) |->
        IF k = label + 1
        THEN [tbl.rows[k] EXCEPT !.meff = v]
        ELSE tbl.rows[k]]]

\* pandas: df.at[label, 'meff'] = v, every row whose index label is `label`
AtSet(tbl, label, v) ==
    [tbl EXCEPT !.rows = [k \in 1 .. Len(tbl.rows) |->
        IF tbl.rows[k].Index = label
        THEN [tbl.rows[k] EXCEPT !.meff = v]
        ELSE tbl.rows[k]]]

\* pandas: Series.append(other) returns the concatenation as a new Series
\* and leaves the Series it is called on as it was
SeriesAppend(series, other) == [self |-> series, result |-> series \o other]

\* geopandas: boundary.boundary, the outline of every polygon of the frame
BoundaryOf(frame) == [k \in 1 .. Len(frame) |-> Ring(frame[k])]

\* ------------------------------------------------------------ meff, parts
\* (variant) an append that extends the caller's series in place
LinesAppendedInPlace(series, frame) == SeriesAppend(series, BoundaryOf(frame)).result

\* line 45: lines.geometry.append(boundary.boundary); the value of the
\* expression is dropped, the caller's lines object is what append leaves
LinesAfterAppend(series, frame) == SeriesAppend(series, BoundaryOf(frame)).self

\* line 46: lines = GeoDataFrame(geometry=GeoSeries(lines.unary_union))
UnionedLines(series) == UnaryUnion(series)

\* lines 49-52: polygonize_full(...)[0], exploded into single polygons
Patches(unioned) == Polygonize(unioned)

\* line 58: list(patches_sindex.intersection(cell.geometry.bounds)), the
\* positions of the patches whose bounding box meets the cell's
SindexIntersection(ps, box) ==
    {k \in 1 .. Len(ps) : BoxesIntersect(Bounds(ps[k]), box)}

\* lines 59-60: patches.iloc[idx] filtered by intersects(cell.geometry)
Fragments(ps, g) ==
    {k \in SindexIntersection(ps, Bounds(g)) : Intersects(ps[k], g)}

\* (variant) the sum is not reset for a new cell
FragmentsSumKeep(old) == old

\* line 56: fragments_sum = 0 (old is the value left by the previous cell)
FragmentsSumInit(old) == Zero

\* (variant) the fragment weighted by its clipped area only
TermClipped(fragment, g, s) ==
    FMul(Area(Intersection(fragment, g), s), Area(Intersection(fragment, g), s))

\* lines 64-67: one fragment's term ai * acmpl
Term(fragment, g, s) == FMul(Area(Intersection(fragment, g), s), Area(fragment, s))

FNeg(a) == <<-a[1], a[2], a[3]>>

\* (variant) the terms subtracted from the sum
RECURSIVE SumFragmentsMinus(_, _, _, _, _)
SumFragmentsMinus(ks, ps, g, s, acc) ==
    IF ks = {} THEN acc
    ELSE LET k == Min(ks)
         IN  SumFragmentsMinus(ks \ {k}, ps, g, s, FAdd(acc, FNeg(Term(ps[k], g, s))))

\* lines 63-67: the loop over the fragments, in position order
RECURSIVE SumFragments(_, _, _, _, _)
SumFragments(ks, ps, g, s, acc) ==
    IF ks = {} THEN acc
    ELSE LET k == Min(ks)
         IN  SumFragments(ks \ {k}, ps, g, s, FAdd(acc, Term(ps[k], g, s)))

\* lines 56-67: fragments_sum when the loop over the fragments of a cell ends
CellSum(ps, g, s, old) ==
    SumFragments(Fragments(ps, g), ps, g, s, FragmentsSumInit(old))

\* line 71: 1000**2
Thousand == 1000

\* (variant) metres to kilometres, not square metres to square kilometres
MeffValuePerThousand(sum, area) == FDiv(FDiv(sum, area), Num(Thousand))

\* lines 69-71: meff = fragments_sum / cell.geometry.area / 1000**2
MeffValue(sum, area) == FDiv(FDiv(sum, area), FMul(Num(Thousand), Num(Thousand)))

\* (variant) a guarded division: a cell of zero area is skipped
CellOutcomeGuarded(tbl, cell, sum, area) ==
    IF IsZero(area)
    THEN [raised |-> FALSE, table |-> tbl]
    ELSE [raised |-> FALSE, table |-> AtSet(tbl, cell.Index, MeffValue(sum, area))]

\* lines 69-72: the division of two Python floats raises ZeroDivisionError
\* when cell.geometry.area is 0.0, before anything is written; otherwise
\* the value goes to the cell's row
CellOutcome(tbl, cell, sum, area) ==
    IF IsZero(area)
    THEN [raised |-> TRUE, table |-> tbl]
    ELSE [raised |-> FALSE, table |-> AtSet(tbl, cell.Index, MeffValue(sum, area))]

\* ------------------------------------------------------------------ inputs
Sides == {1000, 5000}

HSeg(y, x0, x1) == {<<"h", x, y>> : x \in x0 .. x1 - 1}

VSeg(x, y0, y1) == {<<"v", x, y>> : y \in y0 .. y1 - 1}

RECURSIVE SeqOf(_)
SeqOf(S) ==
    IF S = {} THEN <<>>
    ELSE LET x == CHOOSE x \in S : TRUE IN <<x>> \o SeqOf(S \ {x})

\* a network of line strings that cross the whole grid: the vertical lines
\* at the abscissas xs and the horizontal lines at the ordinates ys
Network(xs, ys) ==
    SeqOf({VSeg(x, 0, GridN) : x \in xs} \cup {HSeg(y, 0, GridN) : y \in ys})

\* line positions that close a block on the origin, alone or with the far rim
Frames ==
    {{0, a} : a \in 1 .. GridN} \cup {{0, a, GridN} : a \in 1 .. GridN - 1}

\* networks that enclose blocks, networks of two crossing lines (which
\* enclose nothing), and the empty network
Networks ==
    {Network(xs, ys) : xs \in Frames, ys \in Frames}
        \cup {Network({a}, {b}) : a \in 1 .. GridN - 1, b \in 1 .. GridN - 1}
        \cup {<<>>}

\* networks for the masks of several regions: one line each way with the
\* rim lines on both sides, and the lines around the cell on the origin
TiledNetworks ==
    {Network({0, a, GridN}, {0, a, GridN}) : a \in 1 .. GridN - 1}
        \cup {Network({0, 1}, {0, 1})}

Boundaries == {<<Rect(0, 0, GridN, GridN)>>}

\* strips of cells, one cell wide
Strips ==
    {Rect(x, y, x + 1, y1) : x \in 0 .. GridN - 1, y \in 0 .. GridN - 1, y1 \in 1 .. GridN}
        \cup {Rect(x, y, x1, y + 1) : x \in 0 .. GridN - 1, y \in 0 .. GridN - 1, x1 \in 1 .. GridN}

\* an L of three cells
Corners ==
    {Poly(((x .. x + 1) \X (y .. y + 1)) \ {c}) :
        x \in 0 .. GridN - 2, y \in 0 .. GridN - 2, c \in Cells}

RegionShapes ==
    {g \in Strips \cup Corners : Cardinality(g.cells) \in 1 .. 3}
        \cup {Degenerate(<<"h", 0, 0>>)}

\* the blocks that the cuts x = a and y = a divide the grid into, and a
\* zero-area polygon at the crossing
Quadrants(a) ==
    {Rect(0, 0, a, a), Rect(a, 0, GridN, a), Rect(0, a, a, GridN),
     Rect(a, a, GridN, GridN), Degenerate(<<"h", a, a>>)}

Row(label, g) == [Index |-> label, geometry |-> g, attr |-> <<"cell", label>>, meff |-> Absent]

\* index labels are unique and are not the positions of the rows
Label(k, n) == n - k

MaskOf(gs) ==
    [columns |-> {"geometry", "attr"},
     rows |-> [k \in 1 .. Len(gs) |-> Row(Label(k, Len(gs)), gs[k])]]

\* masks of at most one region
SingleMasks == {MaskOf(<<g>>) : g \in RegionShapes} \cup {MaskOf(<<>>)}

\* masks of several regions, taken in any order from the blocks of a cut
TiledMasks ==
    UNION {UNION {{MaskOf(gs) : gs \in {q \in [1 .. n -> Quadrants(a)] :
                                        \A j, k \in 1 .. n : j # k => q[j] # q[k]}} :
                  n \in 2 .. MaxRegions} :
           a \in 1 .. GridN - 1}

\* ------------------------------------------------------------------- state
VARIABLES
    side,           \* metres per grid unit (the CRS is metric)
    lines,          \* the caller's lines object: a series of line geometries
    boundary,       \* the caller's boundary object: a frame of polygons
    heap,           \* mask objects: "caller" (the argument) and "local"
    maskRef,        \* the object the local name `mask` is bound to
    unioned,        \* the local name `lines` after line 46
    patches,        \* the exploded polygons (line 52)
    pc,             \* "idle", "loop", "done", "error"
    i,              \* number of mask rows the loop has finished
    fragments_sum,  \* local of the loop body
    ret,            \* the object returned to the caller, or "none"
    prev,           \* the meff column of the previous call's result
    args,           \* the arguments as first passed (history)
    cen,            \* to_centroids: its arguments, locals and result
    mrg             \* merge_features: its arguments, locals and result

vars == <<side, lines, boundary, heap, maskRef, unioned, patches, pc, i,
          fragments_sum, ret, prev, args, cen, mrg>>

NoTable == [columns |-> {}, rows |-> <<>>]

\* The scenario of the specification: a boundary square of two by two cells
\* of 5 km, two segments that cross in its middle and end on its outline,
\* and the four quadrants as the mask
ScenarioLines == <<VSeg(1, 0, 2), HSeg(1, 0, 2)>>

ScenarioBoundary == <<Rect(0, 0, 2, 2)>>

ScenarioMask == MaskOf(<<Poly({<<0, 0>>}), Poly({<<1, 0>>}), Poly({<<0, 1>>}), Poly({<<1, 1>>})>>)

InitScenario ==
    /\ side = 5000
    /\ lines = ScenarioLines
    /\ boundary = ScenarioBoundary
    /\ heap = [caller |-> ScenarioMask, local |-> NoTable]

InitFamilies ==
    /\ side \in Sides
    /\ boundary \in Boundaries
    /\ \/ /\ lines \in Networks
          /\ \E m \in SingleMasks : heap = [caller |-> m, local |-> NoTable]
       \/ /\ lines \in TiledNetworks
          /\ \E m \in TiledMasks : heap = [caller |-> m, local |-> NoTable]

NoObject == "none"

\* no earlier call has returned
NoResult == [returned |-> FALSE, meff |-> <<>>]

MeffColumn(tbl) == [k \in 1 .. Len(tbl.rows) |-> tbl.rows[k].meff]

\* to_centroids and merge_features before they are called
CenIdle == [pc |-> "idle"]

MrgIdle == [pc |-> "idle"]

Init ==
    /\ InitFamilies \/ InitScenario
    /\ cen = CenIdle
    /\ mrg = MrgIdle
    /\ maskRef = "caller"
    /\ unioned = {}
    /\ patches = <<>>
    /\ pc = "idle"
    /\ i = 0
    /\ fragments_sum = Zero
    /\ ret = NoObject
    /\ prev = NoResult
    /\ args = [lines |-> lines, boundary |-> boundary, mask |-> heap["caller"]]

\* lines 41-53: the caller calls meff(lines, boundary, mask) with its objects
Call ==
    /\ pc \in {"idle", "done"}
    /\ LET c == Copy(heap, "caller")
       IN  /\ heap' = [c.heap EXCEPT ![c.ref] = SetColumn(c.heap[c.ref], NaN)]
           /\ maskRef' = c.ref
    /\ lines' = LinesAfterAppend(lines, boundary)
    /\ unioned' = UnionedLines(lines')
    /\ patches' = Patches(unioned')
    /\ pc' = "loop"
    /\ i' = 0
    /\ fragments_sum' = Zero
    /\ ret' = NoObject
    /\ prev' = IF pc = "done"
               THEN [returned |-> TRUE, meff |-> MeffColumn(heap[ret])]
               ELSE NoResult
    /\ UNCHANGED <<side, boundary, args, cen, mrg>>

\* lines 55-72: one pass of the loop body, for the next row of the mask
LoopCell ==
    /\ pc = "loop"
    /\ i < Len(heap[maskRef].rows)
    /\ LET cell == heap[maskRef].rows[i + 1]
           sum == CellSum(patches, cell.geometry, side, fragments_sum)
           area == Area(cell.geometry, side)
           out == CellOutcome(heap[maskRef], cell, sum, area)
       IN  /\ fragments_sum' = sum
           /\ IF out.raised
              THEN \* ZeroDivisionError leaves meff through the caller
                   /\ pc' = "error"
                   /\ UNCHANGED <<heap, i>>
              ELSE /\ heap' = [heap EXCEPT ![maskRef] = out.table]
                   /\ i' = i + 1
                   /\ pc' = "loop"
    /\ UNCHANGED <<side, lines, boundary, maskRef, unioned, patches, ret, prev, args,
                   cen, mrg>>

\* line 74: return mask
Return ==
    /\ pc = "loop"
    /\ i = Len(heap[maskRef].rows)
    /\ ret' = maskRef
    /\ pc' = "done"
    /\ UNCHANGED <<side, lines, boundary, heap, maskRef, unioned, patches, i,
                   fragments_sum, prev, args, cen, mrg>>

Next == Call \/ LoopCell \/ Return

Spec == Init /\ [][Next]_vars

\* =========================================================== to_centroids
\* src/src/utils/convert.py.  The raster read at line 32 is an array of
\* shape (bands, rows, cols) of unsigned integers of one dtype; arr[b][r][c]
\* with b, r, c counted from 1 here.  A point is the centre of a pixel,
\* named by the pixel's row and column.
PixelValues == {0, 1, 128, 255}

\* the number of values of the dtype: uint8 and uint16
Dtypes == {256, 65536}

Rasters ==
    UNION {[1 .. b -> [1 .. r -> [1 .. c -> PixelValues]]] :
              b \in 1 .. MaxBands, r \in 1 .. MaxRows, c \in 1 .. MaxCols}

\* line 41: sum(arr), Python's sum over the first axis: 0 + arr[0] + arr[1]
\* + ..., each addition in the dtype of the array, which wraps around
RECURSIVE BandSum(_, _, _, _, _)
BandSum(arr, b, r, c, modulus) ==
    IF b = 0 THEN 0
    ELSE (BandSum(arr, b - 1, r, c, modulus) + arr[b][r][c]) % modulus

\* line 41: mask = sum(arr) == nodata
CenMask(arr, modulus, nodata) ==
    [r \in 1 .. Len(arr[1]) |-> [c \in 1 .. Len(arr[1][1]) |->
        BandSum(arr, Len(arr), r, c, modulus) = nodata]]

\* the state of the call at line 30, with its arguments
CenCalled(arr, modulus, nodata) ==
    [pc |-> "called", arr |-> arr, modulus |-> modulus, nodata |-> nodata]

InitCentroids ==
    /\ InitScenario
    /\ mrg = MrgIdle
    /\ \E arr \in Rasters, m \in Dtypes, nd \in PixelValues : cen = CenCalled(arr, m, nd)
    /\ maskRef = "caller"
    /\ unioned = {}
    /\ patches = <<>>
    /\ pc = "idle"
    /\ i = 0
    /\ fragments_sum = Zero
    /\ ret = NoObject
    /\ prev = NoResult
    /\ args = [lines |-> lines, boundary |-> boundary, mask |-> heap["caller"]]

meffVars == <<side, lines, boundary, heap, maskRef, unioned, patches, pc, i,
              fragments_sum, ret, prev, args>>

\* lines 30-45: read the raster, compute the mask, start the empty lists
OpenRaster ==
    /\ cen.pc = "called"
    /\ cen' = [pc |-> "scan", arr |-> cen.arr, modulus |-> cen.modulus,
               nodata |-> cen.nodata,
               mask |-> CenMask(cen.arr, cen.modulus, cen.nodata),
               r |-> 1, c |-> 1,
               xy |-> <<>>,
               properties |-> [b \in 1 .. Len(cen.arr) |-> <<>>]]
    /\ UNCHANGED <<meffVars, mrg>>

\* lines 48-55: the body of the two loops for pixel (r, c)
VisitPixel ==
    /\ cen.pc = "scan"
    /\ cen.r <= Len(cen.arr[1])
    /\ LET r == cen.r
           c == cen.c
           last == c = Len(cen.arr[1][1])
           kept == ~cen.mask[r][c]
       IN  cen' = [cen EXCEPT
                     !.xy = IF kept THEN Append(@, <<r, c>>) ELSE @,
                     !.properties = IF kept
                                    THEN [b \in 1 .. Len(cen.arr) |->
                                            Append(@[b], cen.arr[b][r][c])]
                                    ELSE @,
                     !.r = IF last THEN r + 1 ELSE r,
                     !.c = IF last THEN 1 ELSE c + 1]
    /\ UNCHANGED <<meffVars, mrg>>

\* lines 57-71: the frame of the points (to_crs is None) with one column
\* b1..bn per band, returned
BuildFrame ==
    /\ cen.pc = "scan"
    /\ cen.r > Len(cen.arr[1])
    /\ cen' = [pc |-> "done", arr |-> cen.arr, modulus |-> cen.modulus,
               nodata |-> cen.nodata,
               gdf |-> [k \in 1 .. Len(cen.xy) |->
                          [geometry |-> cen.xy[k],
                           b |-> [b \in 1 .. Len(cen.arr) |-> cen.properties[b][k]]]]]
    /\ UNCHANGED <<meffVars, mrg>>

NextCentroids == OpenRaster \/ VisitPixel \/ BuildFrame

SpecCentroids == InitCentroids /\ [][NextCentroids]_vars

\* ========================================================= merge_features
\* src/src/utils/process.py.  A table is the sequence of its columns; a
\* column has a name and the values it carries, named by the input table
\* they come from.  A name is the name given in the input and the suffixes
\* pd.merge has added to it.
MergeOn == "cellcode"

Features == {"a", "b"}

Plain(base) == <<base, <<>>>>

Column(base, src) == [name |-> Plain(base), src |-> src]

\* the k-th input table: the key column and the feature columns fs
TableOf(k, fs) ==
    <<Column(MergeOn, k)>>
        \o (IF "a" \in fs THEN <<Column("a", k)>> ELSE <<>>)
        \o (IF "b" \in fs THEN <<Column("b", k)>> ELSE <<>>)

TableLists ==
    UNION {{[k \in 1 .. n |-> TableOf(k, f[k])] : f \in [1 .. n -> SUBSET Features]} :
              n \in 1 .. MaxTables}

\* set(df.columns)
ColumnSet(df) == {df[k].name : k \in 1 .. Len(df)}

\* list(reversed(lst))
Reversed(lst) == [k \in 1 .. Len(lst) |-> lst[Len(lst) + 1 - k]]

\* line 11: set.intersection(*cols_set_list), the columns every table has
RECURSIVE SetIntersection(_)
SetIntersection(sets) ==
    IF Len(sets) = 1 THEN sets[1]
    ELSE sets[1] \cap SetIntersection(Tail(sets))

\* lines 9-14
ColsDuplicate(lst, ignore_duplicates, merge_on) ==
    IF ignore_duplicates
    THEN SetIntersection([k \in 1 .. Len(lst) |-> ColumnSet(lst[k])]) \ {Plain(merge_on)}
    ELSE {}

\* df.drop(columns=cols)
Drop(df, cols) ==
    LET Stays(col) == col.name \notin cols
    IN  SelectSeq(df, Stays)

Suffixed(name, suffix) == <<name[1], Append(name[2], suffix)>>

\* pd.merge(left, right, on=merge_on): the columns of left, then those of
\* right but the key; a name the two share gets "_x" on the left and "_y" on
\* the right; the key column is kept once
PdMerge(left, right, merge_on) ==
    LET overlap == (ColumnSet(left) \cap ColumnSet(right)) \ {Plain(merge_on)}
        Rename(df, suffix) ==
            [k \in 1 .. Len(df) |->
                IF df[k].name \in overlap
                THEN [df[k] EXCEPT !.name = Suffixed(@, suffix)]
                ELSE df[k]]
        NotKey(col) == col.name # Plain(merge_on)
    IN  Rename(left, "_x") \o SelectSeq(Rename(right, "_y"), NotKey)

\* the state of the call at line 4, with its arguments
MrgCalled(lst, ignore_duplicates) ==
    [pc |-> "called", tables |-> lst, ignore_duplicates |-> ignore_duplicates]

InitMerge ==
    /\ InitScenario
    /\ cen = CenIdle
    /\ \E lst \in TableLists, f \in BOOLEAN : mrg = MrgCalled(lst, f)
    /\ maskRef = "caller"
    /\ unioned = {}
    /\ patches = <<>>
    /\ pc = "idle"
    /\ i = 0
    /\ fragments_sum = Zero
    /\ ret = NoObject
    /\ prev = NoResult
    /\ args = [lines |-> lines, boundary |-> boundary, mask |-> heap["caller"]]

\* lines 6-15: reverse the list, find the columns to drop, pop the first table
MergeStart ==
    /\ mrg.pc = "called"
    /\ LET lst == Reversed(mrg.tables)
       IN  mrg' = [pc |-> "while", tables |-> mrg.tables,
                   ignore_duplicates |-> mrg.ignore_duplicates,
                   cols_duplicate |-> ColsDuplicate(lst, mrg.ignore_duplicates, MergeOn),
                   gdf |-> lst[Len(lst)],
                   lst |-> SubSeq(lst, 1, Len(lst) - 1)]
    /\ UNCHANGED <<meffVars, cen>>

\* lines 17-20: pop the next table, drop the columns, merge it to the right
MergeStep ==
    /\ mrg.pc = "while"
    /\ Len(mrg.lst) > 0
    /\ LET gdf_append == Drop(mrg.lst[Len(mrg.lst)], mrg.cols_duplicate)
       IN  mrg' = [mrg EXCEPT !.gdf = PdMerge(@, gdf_append, MergeOn),
                              !.lst = SubSeq(@, 1, Len(@) - 1)]
    /\ UNCHANGED <<meffVars, cen>>

\* line 22
MergeReturn ==
    /\ mrg.pc = "while"
    /\ Len(mrg.lst) = 0
    /\ mrg' = [pc |-> "done", tables |-> mrg.tables,
               ignore_duplicates |-> mrg.ignore_duplicates,
               gdf |-> mrg.gdf]
    /\ UNCHANGED <<meffVars, cen>>

NextMerge == MergeStart \/ MergeStep \/ MergeReturn

SpecMerge == InitMerge /\ [][NextMerge]_vars

\* ================================================================== claims
\* the table the loop writes to
Cur == heap[maskRef]

\* row k of the mask has been through the loop body in the current call
Processed(k) == pc \in {"loop", "done", "error"} /\ k <= i

\* the patches that intersect g, found by testing every patch
Intersecting(g) == {j \in 1 .. Len(patches) : Intersects(patches[j], g)}

IsNumber(v) == Len(v) = 3

\* sum over the patches ks of area(f /\ g) * area(f)
RECURSIVE WeightedSum(_, _)
WeightedSum(ks, g) ==
    IF ks = {} THEN Zero
    ELSE LET j == CHOOSE j \in ks : TRUE
         IN  FAdd(FMul(FMul(Num(Cardinality(patches[j].cells \cap g.cells)), Num(side * side)),
                       FMul(Num(Cardinality(patches[j].cells)), Num(side * side))),
                  WeightedSum(ks \ {j}, g))

\* C1: every region that has been through the loop holds
\* meff = (sum over the fragments f that intersect R of area(f /\ R) * area(f))
\* / area(R) / 1,000,000, with area(f) the whole area of the fragment.
C1_MeffIsWeightedSum ==
    \A k \in 1 .. Len(Cur.rows) :
        Processed(k) =>
            LET g == Cur.rows[k].geometry
            IN  Cur.rows[k].meff =
                    FDiv(FDiv(WeightedSum(Intersecting(g), g),
                              FMul(Num(Cardinality(g.cells)), Num(side * side))),
                         Num(1000000))

\* a fragment straddles the border of a processed region
C1_Witness ==
    \E k \in 1 .. Len(Cur.rows) : \E j \in 1 .. Len(patches) :
        /\ Processed(k)
        /\ patches[j].cells \cap Cur.rows[k].geometry.cells # {}
        /\ patches[j].cells \ Cur.rows[k].geometry.cells # {}
        /\ IsNumber(Cur.rows[k].meff)
        /\ ~IsZero(Cur.rows[k].meff)

\* C2 (as claimed): the lines meff polygonizes are every line of the network
\* and the outline of the boundary, and the patches are their faces.
C2_BoundaryIsPolygonized ==
    pc \in {"loop", "done", "error"} =>
        /\ unioned = UnaryUnion(args.lines) \cup UnaryUnion(BoundaryOf(args.boundary))
        /\ patches = Polygonize(UnaryUnion(args.lines) \cup UnaryUnion(BoundaryOf(args.boundary)))

IsScenario ==
    /\ side = 5000
    /\ args.lines = ScenarioLines
    /\ args.boundary = ScenarioBoundary
    /\ args.mask = ScenarioMask

\* C3 (as claimed): in the scenario of the cross in the 10 km square, meff
\* builds exactly 4 fragments and returns meff = 25 km2 for each quadrant.
C3_ScenarioGives25 ==
    (IsScenario /\ pc = "done") =>
        /\ Len(patches) = 4
        /\ \A k \in 1 .. Len(heap[ret].rows) : heap[ret].rows[k].meff = Num(25)

\* C4: a processed region of positive area that lies inside one fragment f
\* holds meff = area(f) / 1,000,000, whatever its own area.
C4_FullEnclosure ==
    \A k \in 1 .. Len(Cur.rows) : \A j \in 1 .. Len(patches) :
        (/\ Processed(k)
         /\ Cur.rows[k].geometry.cells # {}
         /\ Cur.rows[k].geometry.cells \subseteq patches[j].cells) =>
            Cur.rows[k].meff =
                FDiv(FMul(Num(Cardinality(patches[j].cells)), Num(side * side)), Num(1000000))

\* a fragment of 2,000,000 m2 around a region of 1,000,000 m2: meff = 2.0
C4_Witness ==
    \E k \in 1 .. Len(Cur.rows) : \E j \in 1 .. Len(patches) :
        /\ pc = "done"
        /\ side = 1000
        /\ Cardinality(patches[j].cells) = 2
        /\ Cardinality(Cur.rows[k].geometry.cells) = 1
        /\ Cur.rows[k].geometry.cells \subseteq patches[j].cells
        /\ Cur.rows[k].meff = Num(2)

\* C5: a region of positive area that no fragment intersects gets through the
\* loop body without an error and holds meff = 0 exactly.
C5_ZeroOverlap ==
    /\ pc = "error" => Cur.rows[i + 1].geometry.cells = {}
    /\ \A k \in 1 .. Len(Cur.rows) :
        (Processed(k) /\ Intersecting(Cur.rows[k].geometry) = {}) =>
            Cur.rows[k].meff = Zero

\* there are fragments, none of them intersects a processed region
C5_Witness ==
    \E k \in 1 .. Len(Cur.rows) :
        /\ pc = "done"
        /\ Len(patches) > 0
        /\ Cur.rows[k].geometry.cells # {}
        /\ Intersecting(Cur.rows[k].geometry) = {}
        /\ Cur.rows[k].meff = Zero

\* C6: when meff has returned, every region of the returned mask holds a
\* number that is not negative.
C6_NonNegative ==
    pc = "done" =>
        \A k \in 1 .. Len(heap[ret].rows) :
            /\ IsNumber(heap[ret].rows[k].meff)
            /\ ~IsNegative(heap[ret].rows[k].meff)

C6_Witness ==
    /\ pc = "done"
    /\ \E k \in 1 .. Len(heap[ret].rows) :
        /\ IsNumber(heap[ret].rows[k].meff)
        /\ heap[ret].rows[k].meff[1] > 0

\* the orders in which n rows can be taken
Orders(n) == {p \in [1 .. n -> 1 .. n] : \A a, b \in 1 .. n : a # b => p[a] # p[b]}

\* the loop of lines 55-72 over the rows of tbl taken in the given order
RECURSIVE Replay(_, _, _)
Replay(tbl, order, acc) ==
    IF order = <<>> THEN tbl
    ELSE LET cell == tbl.rows[Head(order)]
             sum == CellSum(patches, cell.geometry, side, acc)
         IN  Replay(AtSet(tbl, cell.Index, MeffValue(sum, Area(cell.geometry, side))),
                    Tail(order), sum)

C8_Deterministic ==
    /\ lines = args.lines
    /\ boundary = args.boundary
    /\ (pc = "done" /\ prev.returned) => MeffColumn(heap[ret]) = prev.meff

\* the second call has returned values that are not all zero
C8_Witness ==
    /\ pc = "done"
    /\ prev.returned
    /\ \E k \in 1 .. Len(prev.meff) : prev.meff[k][1] > 0
    /\ Len(patches) > 0

\* C9 (as claimed): the object returned is the caller's own mask object, and
\* that object carries the meff column.
C9_MutatedInPlace ==
    pc = "done" =>
        /\ ret = "caller"
        /\ "meff" \in heap["caller"].columns

\* C9 (amended): the object returned is a copy; it carries the meff column,
\* and the caller's own mask object is left as it was passed, without it.
C9_CopyReturned ==
    pc = "done" =>
        /\ ret = "local"
        /\ "meff" \in heap[ret].columns
        /\ heap["caller"] = args.mask

C9_Witness ==
    /\ pc = "done"
    /\ Len(heap[ret].rows) > 0
    /\ \A k \in 1 .. Len(heap[ret].rows) : IsNumber(heap[ret].rows[k].meff)
    /\ \A k \in 1 .. Len(heap["caller"].rows) : heap["caller"].rows[k].meff = Absent

\* C10: the returned mask has the rows of the mask passed, in their order and
\* with their attributes, plus the meff column; every row holds the value the
\* loop body computes for its own geometry, none is left NaN.
C10_WriteBackFrame ==
    pc = "done" =>
        /\ heap[ret].columns = args.mask.columns \cup {"meff"}
        /\ Len(heap[ret].rows) = Len(args.mask.rows)
        /\ \A k \in 1 .. Len(heap[ret].rows) :
            /\ [heap[ret].rows[k] EXCEPT !.meff = Absent] = args.mask.rows[k]
            /\ heap[ret].rows[k].meff # NaN
            /\ heap[ret].rows[k].meff =
                   MeffValue(CellSum(patches, args.mask.rows[k].geometry, side, Zero),
                             Area(args.mask.rows[k].geometry, side))

\* several regions whose values differ from one another
C10_Witness ==
    /\ pc = "done"
    /\ Len(heap[ret].rows) >= 2
    /\ \A j, k \in 1 .. Len(heap[ret].rows) :
        j # k => heap[ret].rows[j].meff # heap[ret].rows[k].meff

\* the rows of the mask passed whose polygon has no area
ZeroAreaRows == {k \in 1 .. Len(args.mask.rows) : args.mask.rows[k].geometry.cells = {}}

\* C11: with a region of zero area in the mask, meff ends with the division
\* error at the first such region and never returns: nothing is returned,
\* the caller's mask holds none of the values computed before, and the
\* regions from the failing one on are never written.
C11_ZeroAreaRaises ==
    /\ pc = "error" =>
        /\ i + 1 \in ZeroAreaRows
        /\ ret = NoObject
        /\ heap["caller"] = args.mask
        /\ \A k \in 1 .. Len(Cur.rows) : k > i => Cur.rows[k].meff = NaN
    /\ (ZeroAreaRows # {} /\ pc # "idle") =>
        /\ pc \in {"loop", "error"}
        /\ i < Min(ZeroAreaRows)

\* the error comes after a region whose value had been computed
C11_Witness ==
    /\ pc = "error"
    /\ i >= 1
    /\ IsNumber(Cur.rows[1].meff)
    /\ Cur.rows[1].meff[1] > 0

\* the loop body of lines 56-71 for geometry g with every patch taken as a
\* fragment: no spatial index, no intersects filter
RECURSIVE SumAll(_, _)
SumAll(n, g) ==
    IF n = 0 THEN Zero
    ELSE FAdd(SumAll(n - 1, g), Term(patches[n], g, side))

\* C12: for every region, the patches left by the bounding-box query and
\* the intersects test are exactly the patches that intersect the region,
\* the query alone returns at least those, and the meff written is the
\* value of the aggregation over all patches without an index.
C12_PrefilterIsExact ==
    \A k \in 1 .. Len(Cur.rows) :
        LET g == Cur.rows[k].geometry
        IN  /\ Fragments(patches, g) = Intersecting(g)
            /\ Intersecting(g) \subseteq SindexIntersection(patches, Bounds(g))
            /\ Processed(k) =>
                   Cur.rows[k].meff = MeffValue(SumAll(Len(patches), g), Area(g, side))

\* a processed region for which the query returns a patch that the
\* intersects test then removes
C12_Witness ==
    \E k \in 1 .. Len(Cur.rows) :
        LET g == Cur.rows[k].geometry
        IN  /\ Processed(k)
            /\ SindexIntersection(patches, Bounds(g)) \ Intersecting(g) # {}
            /\ IsNumber(Cur.rows[k].meff)

\* the band values of pixel (r, c)
PixelBands(r, c) == [b \in 1 .. Len(cen.arr) |-> cen.arr[b][r][c]]

\* C13 (as claimed): when to_centroids has returned, a pixel has no point
\* exactly when every one of its band values equals nodata, and every other
\* pixel has exactly one point, which carries its band values.
C13_MaskedIffAllNodata ==
    cen.pc = "done" =>
        \A r \in 1 .. Len(cen.arr[1]) : \A c \in 1 .. Len(cen.arr[1][1]) :
            LET pts == {k \in 1 .. Len(cen.gdf) : cen.gdf[k].geometry = <<r, c>>}
            IN  IF \A b \in 1 .. Len(cen.arr) : cen.arr[b][r][c] = cen.nodata
                THEN pts = {}
                ELSE /\ Cardinality(pts) = 1
                     /\ \A k \in pts : cen.gdf[k].b = PixelBands(r, c)

\* the input tables that have a column named base
TablesWith(base) ==
    {k \in 1 .. Len(mrg.tables) : Plain(base) \in ColumnSet(mrg.tables[k])}

\* C14 (as claimed): when merge_features has returned with
\* ignore_duplicates=True, the columns of the result come in the order of
\* the input list starting from the first table, no column is renamed, and
\* every name that more than one input table has (the key too) is there
\* exactly once, with the values of the earliest table that has it.
C14_DuplicatesAppearOnce ==
    (mrg.pc = "done" /\ mrg.ignore_duplicates) =>
        /\ mrg.gdf[1] = Column(MergeOn, 1)
        /\ \A k \in 1 .. Len(mrg.gdf) - 1 : mrg.gdf[k].src <= mrg.gdf[k + 1].src
        /\ \A k \in 1 .. Len(mrg.gdf) : mrg.gdf[k].name[2] = <<>>
        /\ \A base \in Features \cup {MergeOn} :
               Cardinality(TablesWith(base)) > 1 =>
                   LET cols == {k \in 1 .. Len(mrg.gdf) : mrg.gdf[k].name[1] = base}
                   IN  /\ Cardinality(cols) = 1
                       /\ \A k \in cols : mrg.gdf[k] = Column(base, Min(TablesWith(base)))
====
